---- MODULE Spec2Model ----
(***************************************************************************)
(* The PDF field-signing page of src/app.py as a state machine.            *)
(*                                                                         *)
(* Streamlit re-executes the whole script, top to bottom, once per user    *)
(* interaction.  One action below is one such script run (plus the rerun   *)
(* that st.experimental_rerun() forces), with at most one button clicked.  *)
(* The state is st.session_state (pdf_bytes, pages, values_png, zoom), the *)
(* module-level FIELDS list, and what the run put on screen.               *)
(*                                                                         *)
(* Lengths are in PDF points, zoom factors in tenths (20 is 2.0).          *)
(***************************************************************************)
EXTENDS Integers, Sequences, FiniteSets

VARIABLES
    pdf_bytes,   \* st.session_state.pdf_bytes: None or the loaded bytes
    pages,       \* st.session_state.pages: the list render_all_pages_b64 returned
    values_png,  \* st.session_state.values_png: field key -> PNG bytes
    zoom,        \* st.session_state.zoom, in tenths
    fields,      \* the module-level FIELDS list
    preview,     \* the composited page images the last run displayed (left column)
    ui           \* what the last run did: button, messages, stamp/download/upload

vars == <<pdf_bytes, pages, values_png, zoom, fields, preview, ui>>

session == <<pdf_bytes, pages, values_png>>

----------------------------------------------------------------------------
(* Configuration (src/app.py 20-31, 149) *)

DEFAULT_ZOOM == 20

ZOOM_MIN == 10

ZOOM_MAX == 30

SliderValues == ZOOM_MIN..ZOOM_MAX

Field(key, page, x, y, w, h) ==
    [key |-> key, page |-> page, x |-> x, y |-> y, w |-> w, h |-> h]

FIELDS ==
    << Field("name",    1, 482, 479,  59, 41),
       Field("phone",   1, 120, 630, 260, 40),
       Field("birth",   1, 120, 580, 260, 40),
       Field("userid",  1, 120, 530, 220, 40),
       Field("consent", 1, 120, 120, 120, 40),
       Field("sign",    1, 380, 360, 220, 60) >>

Range(s) == {s[i] : i \in DOMAIN s}

Keys(fs) == {f.key : f \in Range(fs)}

None == "None"

----------------------------------------------------------------------------
(* Bounds and enumerated inputs of the model *)

\* The "apply" buttons clicked are those of the first ActiveFields fields
\* of the registry (every field is composited, stamped and can be cleared).
ActiveFields == 2

\* At most this many fields in a registry other than FIELDS (SpecSel).
MaxFields == 2

\* Slider positions the session specification moves the zoom slider to:
\* the minimum, the default, a factor with no exact binary value, the maximum.
SliderStops == {ZOOM_MIN, DEFAULT_ZOOM, 23, ZOOM_MAX}

\* Documents the sources can produce.  "docA": one A4 page; "docB": two
\* Letter pages; "corrupt": bytes fitz cannot open; "empty": b"".
ValidDocs == {"docA", "docB"}

Docs == ValidDocs \cup {"corrupt", "empty"}

PageHeights(d) ==
    IF d = "docA" THEN <<842>> ELSE IF d = "docB" THEN <<792, 792>> ELSE <<>>

\* canvas.image_data: None (the component has sent nothing yet), an
\* all-transparent array (nothing drawn), or an array with ink.
CanvasData == {None, "blank", "ink"}

\* Python truthiness of st.session_state.pdf_bytes (None and b"" are falsy).
Truthy(b) == b /= None /\ b /= "empty"

----------------------------------------------------------------------------
(* int(v * scale) in IEEE-754 double arithmetic (src/app.py 200-203, 225-226).
   scale is the double nearest k/10; v is an integer-valued double.         *)

Abs(n) == IF n < 0 THEN -n ELSE n

RECURSIVE Pow2(_)
Pow2(n) == IF n = 0 THEN 1 ELSE 2 * Pow2(n - 1)

RECURSIVE Pow2Mod10(_)
Pow2Mod10(n) == IF n = 0 THEN 1 ELSE (2 * Pow2Mod10(n - 1)) % 10

RECURSIVE CeilLog2(_)
CeilLog2(n) == IF n <= 1 THEN 0 ELSE 1 + CeilLog2((n + 1) \div 2)

\* Binary exponent of k/10 for 1.0 <= k/10 < 4.0.
BinExp(k) == IF k >= 20 THEN 1 ELSE 0

\* The double nearest k/10 is k/10 + RepErr(k) / (10 * 2^(52 - BinExp(k))).
RepErr(k) ==
    LET rho == (k * Pow2Mod10(52 - BinExp(k))) % 10
    IN  IF rho < 5 THEN -rho ELSE 10 - rho

RepErrOf == [k \in SliderValues |-> RepErr(k)]

\* int(a * scale) for a >= 0: the exact product truncated, except that a
\* product which is an integer N in decimal but falls more than half an ulp
\* below N in binary is rounded to the double before N and truncates to N-1.
TruncPos(a, k) ==
    IF (a * k) % 10 /= 0 \/ a = 0 THEN (a * k) \div 10
    ELSE LET N == (a * k) \div 10
             r == RepErrOf[k]
         IN  IF r < 0 /\ a * (-r) * Pow2(2 + BinExp(k)) > 10 * Pow2(CeilLog2(N))
             THEN N - 1 ELSE N

\* round(v * scale): the nearest integer, a tie going to the even one.
RoundHalfEven(v, k) ==
    LET a == Abs(v)
        q == (a * k) \div 10
        t == (a * k) % 10
        n == IF t < 5 THEN q
             ELSE IF t > 5 THEN q + 1
             ELSE IF q % 2 = 0 THEN q ELSE q + 1
    IN  IF v < 0 THEN -n ELSE n

\* The conversion as it would be with round() in place of int().
IntMulRound(v, k) == RoundHalfEven(v, k)

\* Python's int() truncates toward zero.
IntMul(v, k) == IF v < 0 THEN -TruncPos(-v, k) ELSE TruncPos(v, k)

----------------------------------------------------------------------------
(* Library calls whose outcome the script does not control *)

Ok(v) == [ok |-> TRUE, val |-> v]

Raise == [ok |-> FALSE, val |-> <<>>]

\* The page list for document d rasterised with fitz.Matrix(z, z): every
\* entry records the zoom the raster was made at ("b64") and the zoom
\* written beside it ("zoom").
RenderedPages(d, z) ==
    [i \in 1..Len(PageHeights(d)) |->
        [page |-> i,
         b64  |-> [doc |-> d, page |-> i, zoom |-> z],
         h_pt |-> PageHeights(d)[i],
         zoom |-> z]]

\* render_all_pages_b64: builds a local list and returns it, or raises in
\* fitz.open / get_pixmap.  fitz.open(stream=b"") raises in some PyMuPDF
\* releases and opens a new, page-less document in others.
render_all_pages_b64(d, z) ==
    IF d \in ValidDocs THEN {Ok(RenderedPages(d, z))}
    ELSE IF d = "empty" THEN {Raise, Ok(<<>>)}
    ELSE {Raise}

\* What the three load_pdf_bytes_from_* calls can return: bytes, or an
\* exception (form.pdf missing, no credentials, unknown file id, transport).
FetchOutcomes == {Ok(d) : d \in Docs} \cup {Raise}

----------------------------------------------------------------------------
(* stamp_multiple_into_pdf (src/app.py 90-102) *)

\* The rectangle given as (x, y, w, h) instead of by its two corners.
EmbedWidthHeight(f, png) ==
    [key |-> f.key, page |-> f.page,
     rect |-> <<f.x, f.y, f.w, f.h>>, png |-> png]

Embed(f, png) ==
    [key |-> f.key, page |-> f.page,
     rect |-> <<f.x, f.y, f.x + f.w, f.y + f.h>>, png |-> png]

\* The for-loop from field i on; acc is the list of insert_image calls made
\* so far.  doc[f["page"] - 1] raises IndexError past the last page.
RECURSIVE StampFrom(_, _, _, _, _)
StampFrom(i, acc, n, vals, fs) ==
    IF i > Len(fs) THEN Ok(acc)
    ELSE IF fs[i].key \notin DOMAIN vals THEN StampFrom(i + 1, acc, n, vals, fs)
    ELSE IF fs[i].page - 1 >= n THEN Raise
    ELSE StampFrom(i + 1, Append(acc, Embed(fs[i], vals[fs[i].key])), n, vals, fs)

stamp_multiple_into_pdf(original_pdf_bytes, vals, fs) ==
    IF original_pdf_bytes \notin ValidDocs THEN Raise
    ELSE LET r == StampFrom(1, <<>>, Len(PageHeights(original_pdf_bytes)), vals, fs)
         IN  IF r.ok THEN Ok([src |-> original_pdf_bytes, embeds |-> r.val])
             ELSE Raise

NoStamp == [src |-> None, embeds |-> <<>>]

----------------------------------------------------------------------------
(* composited_page_image (src/app.py 190-206) and the preview loop (210-214) *)

\* The overlay placed with the slider's current zoom.
OverlayScaleFromSlider(pinfo, z) == z

\* The scale the overlay geometry is computed with.
OverlayScale(pinfo, z) == pinfo.zoom

Overlay(f, pinfo, png, scale) ==
    [key   |-> f.key,
     png   |-> png,
     scale |-> scale,
     x |-> IntMul(f.x, scale),
     y |-> IntMul(pinfo.h_pt - f.y - f.h, scale),
     w |-> IntMul(f.w, scale),
     h |-> IntMul(f.h, scale)]

RECURSIVE CompositeFrom(_, _, _, _, _, _)
CompositeFrom(i, acc, pinfo, vals, fs, z) ==
    IF i > Len(fs) THEN acc
    ELSE IF fs[i].page /= pinfo.page THEN CompositeFrom(i + 1, acc, pinfo, vals, fs, z)
    ELSE IF fs[i].key \notin DOMAIN vals THEN CompositeFrom(i + 1, acc, pinfo, vals, fs, z)
    ELSE CompositeFrom(i + 1,
             Append(acc, Overlay(fs[i], pinfo, vals[fs[i].key], OverlayScale(pinfo, z))),
             pinfo, vals, fs, z)

composited_page_image(pinfo, vals, fs, z) ==
    [page     |-> pinfo.page,
     base     |-> pinfo.b64,
     overlays |-> CompositeFrom(1, <<>>, pinfo, vals, fs, z)]

\* Lines 180-182 and 210-214: nothing is shown without pages; otherwise one
\* composited image per page, made from values_png as it is at that moment.
Display(ps, vals, fs, z) ==
    [i \in 1..Len(ps) |-> composited_page_image(ps[i], vals, fs, z)]

----------------------------------------------------------------------------
(* The right column (src/app.py 216-254): page groups in ascending order;
   line 221 raises StopIteration for a group whose page was not rendered,
   which ends the run there.                                               *)

HasPage(ps, n) == \E i \in DOMAIN ps : ps[i].page = n

\* The canvas and buttons of field f are reached.
ButtonsRendered(f, ps, fs) ==
    \A g \in Range(fs) : g.page <= f.page => HasPage(ps, g.page)

\* The "final processing" section (256-292) is reached.
FinalRendered(ps, fs) == \A g \in Range(fs) : HasPage(ps, g.page)

Restrict(m, S) == [k \in S |-> m[k]]

EmptyMap == [k \in {} |-> None]

Put(m, k, v) == [j \in DOMAIN m \cup {k} |-> IF j = k THEN v ELSE m[j]]

Ui(op, key, msg) ==
    [op |-> op, key |-> key, msg |-> msg,
     stamped |-> NoStamp, download |-> FALSE, upload |-> "none"]

----------------------------------------------------------------------------
(* Session state initialisation (src/app.py 128-135); the first run shows
   the "load a PDF" notice and stops at line 182.                          *)

Init ==
    /\ pdf_bytes = None
    /\ pages = <<>>
    /\ values_png = EmptyMap
    /\ zoom = DEFAULT_ZOOM
    /\ fields = FIELDS
    /\ preview = <<>>
    /\ ui = Ui("init", "-", "-")

----------------------------------------------------------------------------
(* "Load / reset PDF" button (src/app.py 156-176) *)

\* The radio choices; "upload" and "drive" need a file / a non-blank id.
Sources == {"repo", "upload", "drive"}

\* What the chosen source yields: nothing to fetch from (no uploaded file,
\* blank file id), or the outcome of the fetch.
Missing == [ok |-> FALSE, val |-> <<"missing">>]

SourceOutcomes(src) ==
    IF src = "repo" THEN FetchOutcomes ELSE FetchOutcomes \cup {Missing}

\* The new pages appended to the list already held.
PagesAppended(old, new) == old \o new

\* The capture mapping kept across a load.
ValuesKept(old) == old

\* Line 172: the new page list takes the place of the old one.
PagesAfterLoad(old, new) == new

\* Line 173: the capture mapping starts empty.
ValuesAfterLoad(old) == EmptyMap

LoadStep ==
    \E src \in Sources : \E fetch \in SourceOutcomes(src) :
        /\ UNCHANGED <<zoom, fields>>
        /\ IF fetch = Missing
           THEN \* lines 161-163 / 166-168: sidebar error, st.stop()
                /\ UNCHANGED session
                /\ preview' = <<>>
                /\ ui' = Ui("load", "-", "source_missing")
           ELSE IF ~fetch.ok
           THEN \* the fetch raised: line 176, then the run goes on
                /\ UNCHANGED session
                /\ preview' = Display(pages, values_png, fields, zoom)
                /\ ui' = Ui("load", "-", "load_failed")
           ELSE \E rend \in render_all_pages_b64(fetch.val, zoom) :
                /\ pdf_bytes' = fetch.val
                /\ pages' = IF rend.ok THEN PagesAfterLoad(pages, rend.val) ELSE pages
                /\ values_png' = IF rend.ok THEN ValuesAfterLoad(values_png)
                                            ELSE values_png
                /\ preview' = Display(pages', values_png', fields, zoom)
                /\ ui' = Ui("load", "-", IF rend.ok THEN "load_ok" ELSE "load_failed")

----------------------------------------------------------------------------
(* Per-field "apply" and "clear" buttons (src/app.py 241-254) *)

\* Line 242: the only test made on the canvas data.
CanvasAccepted(img) == img /= None

\* Every entry dropped, not only that of key k.
RemovedAll(vals, k) == EmptyMap

\* Lines 251-253.
Removed(vals, k) == Restrict(vals, DOMAIN vals \ {k})

\* The preview of this run was drawn (line 213) before the handler ran.
ApplyStep ==
    \E i \in DOMAIN fields, img \in CanvasData :
        LET f == fields[i] IN
        /\ pages /= <<>>
        /\ ButtonsRendered(f, pages, fields)
        /\ i <= ActiveFields
        /\ UNCHANGED <<pdf_bytes, pages, zoom, fields>>
        /\ preview' = Display(pages, values_png, fields, zoom)
        /\ values_png' = IF CanvasAccepted(img) THEN Put(values_png, f.key, img)
                                                ELSE values_png
        /\ ui' = Ui("apply", f.key, IF CanvasAccepted(img) THEN "apply_ok" ELSE "apply_warn")

\* st.experimental_rerun() (line 254) starts the script again at once; the
\* preview on screen is the one that second run draws.
ClearStep ==
    \E i \in DOMAIN fields :
        LET f == fields[i] IN
        /\ pages /= <<>>
        /\ ButtonsRendered(f, pages, fields)
        /\ UNCHANGED <<pdf_bytes, pages, zoom, fields>>
        /\ values_png' = Removed(values_png, f.key)
        /\ preview' = Display(pages, values_png', fields, zoom)
        /\ ui' = Ui("clear", f.key, "-")

----------------------------------------------------------------------------
(* "Upload to Google Drive" button (src/app.py 262-292) *)

\* The run going on after a stamping that raised (no st.stop()).
StampGateOpen(ok) == TRUE

\* Lines 274-276: the run goes past the stamping only when it returned.
StampGate(ok) == ok

UploadStep ==
    \E do_download \in BOOLEAN, sent \in {"ok", "failed"} :
        /\ pages /= <<>>
        /\ FinalRendered(pages, fields)
        /\ UNCHANGED <<session, zoom, fields>>
        /\ preview' = Display(pages, values_png, fields, zoom)
        /\ IF ~Truthy(pdf_bytes) THEN ui' = Ui("upload", "-", "no_pdf")
           ELSE IF DOMAIN values_png = {} THEN ui' = Ui("upload", "-", "no_sign")
           ELSE LET st == stamp_multiple_into_pdf(pdf_bytes, values_png, fields) IN
                IF ~StampGate(st.ok) THEN ui' = Ui("upload", "-", "stamp_failed")
                ELSE ui' = [op |-> "upload", key |-> "-",
                            msg |-> IF sent = "ok" THEN "upload_ok" ELSE "upload_failed",
                            stamped |-> IF st.ok THEN st.val ELSE NoStamp,
                            download |-> do_download,
                            upload |-> sent]

----------------------------------------------------------------------------
(* Runs with no button clicked *)

\* The zoom slider is moved (src/app.py 149-150).
ZoomStep ==
    \E z \in SliderStops \ {zoom} :
        /\ zoom' = z
        /\ UNCHANGED <<session, fields>>
        /\ preview' = Display(pages, values_png, fields, zoom')
        /\ ui' = Ui("zoom", "-", "-")

\* Any other widget changes (radio, text input, checkbox, canvas stroke).
RefreshStep ==
    /\ UNCHANGED <<session, zoom, fields>>
    /\ preview' = Display(pages, values_png, fields, zoom)
    /\ ui' = Ui("refresh", "-", "-")

Next == LoadStep \/ ApplyStep \/ ClearStep \/ UploadStep \/ ZoomStep \/ RefreshStep

Spec == Init /\ [][Next]_vars

----------------------------------------------------------------------------
(* SpecGeom: sessions taken up right after a successful load at any zoom
   the slider offers, or right after the first "apply" that followed it (the
   preview on screen is then still the one drawn before the handler ran).  *)

InitGeom ==
    \E d \in ValidDocs, z \in SliderValues :
    \E ks \in {{}} \cup {{k} : k \in Keys(FIELDS)} :
        /\ pdf_bytes = d
        /\ pages = RenderedPages(d, z)
        /\ values_png = [k \in ks |-> "ink"]
        /\ zoom = z
        /\ fields = FIELDS
        /\ preview = Display(RenderedPages(d, z), EmptyMap, FIELDS, z)
        /\ ui = IF ks = {} THEN Ui("load", "-", "load_ok")
                ELSE Ui("apply", CHOOSE k \in ks : TRUE, "apply_ok")

NextGeom == ApplyStep \/ ClearStep \/ RefreshStep

SpecGeom == InitGeom /\ [][NextGeom]_vars

----------------------------------------------------------------------------
(* SpecSel: stamp_multiple_into_pdf and composited_page_image on other field
   registries and capture mappings than the page itself can build: up to
   MaxFields fields with distinct keys, on page 1 or 2, and mappings that may
   hold a key ("ghost") of no field.                                       *)

FieldPool ==
    {Field(f.key, p, f.x, f.y, f.w, f.h) :
        f \in {FIELDS[1], FIELDS[2], FIELDS[6]}, p \in {1, 2}}

Registries ==
    {r \in UNION {[1..n -> FieldPool] : n \in 0..MaxFields} :
        \A i, j \in DOMAIN r : i /= j => r[i].key /= r[j].key}

MappingKeys == {"name", "phone", "sign", "ghost"}

InitSel ==
    \E r \in Registries, d \in ValidDocs, ks \in SUBSET MappingKeys :
        /\ pdf_bytes = d
        /\ pages = RenderedPages(d, DEFAULT_ZOOM)
        /\ values_png = [k \in ks |-> "ink"]
        /\ zoom = DEFAULT_ZOOM
        /\ fields = r
        /\ preview = Display(RenderedPages(d, DEFAULT_ZOOM), [k \in ks |-> "ink"],
                             r, DEFAULT_ZOOM)
        /\ ui = Ui("refresh", "-", "-")

NextSel == UploadStep \/ RefreshStep

SpecSel == InitSel /\ [][NextSel]_vars

----------------------------------------------------------------------------
(* Properties *)

FailedLoad(u) == u.op = "load" /\ u.msg \in {"source_missing", "load_failed"}

\* C1: a failed load / reset run (source missing, fetch raises, or
\* render_all_pages_b64 raises) leaves pdf_bytes, pages and values_png exactly
\* as they were before the run.
C1_FailedLoadKeepsSession ==
    [][FailedLoad(ui') => UNCHANGED session]_vars

\* C2: "apply" on a blank canvas stores nothing: the capture mapping only
\* ever holds rasters with at least one drawn pixel.
C2_OnlyDrawnRastersStored ==
    \A k \in DOMAIN values_png : values_png[k] = "ink"

\* C3: at the end of every run that shows a preview, the preview is the
\* composite of the capture mapping as it stands at the end of that run
\* (so it holds field k's signature directly after an apply of k).
C3_PreviewIsCurrentComposite ==
    preview /= <<>> => preview = Display(pages, values_png, fields, zoom)

\* C4: an upload is attempted only with a document loaded, a non-empty
\* capture mapping and the result of a stamping that returned in the same
\* run; when the stamping raises there is no upload and no download offer;
\* and a failed validation, stamping or upload leaves pdf_bytes, pages and
\* values_png unchanged.
C4_UploadOrderedAllOrNothing ==
    [][ui'.op = "upload" =>
        LET st == stamp_multiple_into_pdf(pdf_bytes, values_png, fields) IN
        /\ ui'.upload /= "none" =>
              /\ Truthy(pdf_bytes)
              /\ DOMAIN values_png /= {}
              /\ st.ok
              /\ ui'.stamped = st.val
        /\ ui'.download => st.ok /\ ui'.stamped = st.val
        /\ (Truthy(pdf_bytes) /\ DOMAIN values_png /= {} /\ ~st.ok) =>
              /\ ui'.msg = "stamp_failed"
              /\ ui'.upload = "none"
              /\ ~ui'.download
        /\ ui'.msg \in {"no_pdf", "no_sign", "stamp_failed", "upload_failed"} =>
              UNCHANGED session
    ]_vars

C4_StampedThenUploadFailed ==
    /\ ui.op = "upload"
    /\ ui.upload = "failed"
    /\ ui.download
    /\ Len(ui.stamped.embeds) = 2
    /\ ui.stamped.src = pdf_bytes

\* Indices of the registry fields whose key the mapping holds, and the
\* j-th smallest element of a set of indices.
SelectedIdx(fs, vals) == {i \in DOMAIN fs : fs[i].key \in DOMAIN vals}

NthOf(S, j) == CHOOSE i \in S : Cardinality({m \in S : m < i}) = j - 1

\* C5: the stamper embeds an image for exactly the registry fields whose key
\* is in the mapping, each into (x, y, x+w, y+h) on page field.page; the
\* compositor overlays exactly those of them on the rendered page; both in
\* registry order; a key of no field is ignored without error; an empty
\* mapping gives no embed and the unmodified page raster.
C5_FieldSelection ==
    LET S == SelectedIdx(fields, values_png) IN
    /\ ui.msg /= "stamp_failed"
    /\ DOMAIN values_png = {} => ui.stamped = NoStamp
    /\ ui.stamped /= NoStamp =>
          LET E == ui.stamped.embeds IN
          /\ Len(E) = Cardinality(S)
          /\ \A j \in 1..Len(E) :
                LET f == fields[NthOf(S, j)] IN
                /\ E[j].key = f.key
                /\ E[j].page = f.page
                /\ E[j].rect = <<f.x, f.y, f.x + f.w, f.y + f.h>>
                /\ E[j].png = values_png[f.key]
    /\ Len(preview) = Len(pages)
    /\ \A i \in DOMAIN preview :
          LET P == {m \in S : fields[m].page = pages[i].page}
              O == preview[i].overlays
          IN  /\ preview[i].base = pages[i].b64
              /\ Len(O) = Cardinality(P)
              /\ \A j \in 1..Len(O) :
                    /\ O[j].key = fields[NthOf(P, j)].key
                    /\ O[j].png = values_png[O[j].key]

C5_PartialCaptureWithUnknownKey ==
    /\ ui.stamped /= NoStamp
    /\ "ghost" \in DOMAIN values_png
    /\ Len(fields) = 2
    /\ fields[1].page = 2
    /\ fields[2].page = 1
    /\ Len(ui.stamped.embeds) = 1
    /\ Len(preview) = 2
    /\ Len(preview[2].overlays) = 1
    /\ Len(preview[1].overlays) = 0

FieldOf(key) == CHOOSE f \in Range(fields) : f.key = key

\* The four products the compositor converts for field f on a page of
\* height H.
Products(f, H) == <<f.x, H - f.y - f.h, f.w, f.h>>

Rect(o) == <<o.x, o.y, o.w, o.h>>

Truncated(p, v, k) ==
    LET e == v * k - 10 * p
    IN  \/ 0 <= e /\ e < 10
        \/ e = 10 /\ RepErr(k) < 0

C7_ScaleConsistency ==
    /\ \A i, j \in DOMAIN pages : pages[i].b64.zoom = pages[j].b64.zoom
    /\ \A i, j \in DOMAIN preview : preview[i].base.zoom = preview[j].base.zoom
    /\ \A i \in DOMAIN preview :
          /\ preview[i].base = pages[i].b64
          /\ \A j \in DOMAIN preview[i].overlays :
                preview[i].overlays[j].scale = preview[i].base.zoom

C7_SliderMovedAfterLoad ==
    /\ Len(pages) = 2
    /\ Len(preview) = 2
    /\ zoom /= pages[1].b64.zoom
    /\ Len(preview[1].overlays) = 2
    /\ ui.op = "zoom"

\* C8: a successful load replaces the pages wholesale by those of the newly
\* loaded document and empties the capture mapping; pdf_bytes and pages
\* refer to the new document only.
C8_LoadReplacesWholesale ==
    [][(ui'.op = "load" /\ ui'.msg = "load_ok") =>
        /\ DOMAIN values_png' = {}
        /\ pdf_bytes' \in Docs
        /\ Len(pages') = Len(PageHeights(pdf_bytes'))
        /\ \A i \in DOMAIN pages' :
              /\ pages'[i].page = i
              /\ pages'[i].b64 = [doc |-> pdf_bytes', page |-> i, zoom |-> zoom']
              /\ pages'[i].zoom = zoom'
    ]_vars

C8_ReloadedAtOtherZoom ==
    /\ ui.op = "load"
    /\ ui.msg = "load_ok"
    /\ pdf_bytes = "docB"
    /\ Len(pages) = 2
    /\ zoom /= DEFAULT_ZOOM

\* C9: clear(key) removes that key's entry if there is one and is a no-op
\* otherwise; every other entry, the document bytes and the pages stay as
\* they were.
C9_ClearFrame ==
    [][ui'.op = "clear" =>
        /\ DOMAIN values_png' = DOMAIN values_png \ {ui'.key}
        /\ \A k \in DOMAIN values_png' : values_png'[k] = values_png[k]
        /\ UNCHANGED <<pdf_bytes, pages>>
    ]_vars

C9_ClearedOneOfTwo ==
    /\ ui.op = "clear"
    /\ ui.key = "name"
    /\ DOMAIN values_png = {"phone"}

====
